---- MODULE Spec2Model ----
(***************************************************************************)
(* Model of santa_hmm.py: inference over a Hidden Markov Model with three  *)
(* observation channels (forward, backward, forward-backward, Viterbi) and *)
(* the generative sampler.                                                 *)
(*                                                                         *)
(* Every function of the source is a pure function of its arguments (and,  *)
(* for the samplers, of the random draws), so each is an operator here.    *)
(* An action applies an inference function to inputs that Init draws from  *)
(* bounded sets; the generators take one action per loop iteration, with   *)
(* the random draws of the iteration chosen in the action.                 *)
(*                                                                         *)
(* Numbers.  A float64 is modelled as an exact non-negative rational       *)
(* <<n, d>> in lowest terms (d > 0), plus the two IEEE-754 special values  *)
(* the code can produce: NaN == <<0, 0>> (0.0 / 0.0) and Inf == <<1, 0>>   *)
(* (x / 0.0, x > 0).  Rounding is not modelled.  Arrays are functions on   *)
(* 0 .. n-1, as in the source.                                             *)
(***************************************************************************)
EXTENDS Integers, Sequences, FiniteSets, TLC

VARIABLES hmm, obs, len_sequence, pc, ret

vars == <<hmm, obs, len_sequence, pc, ret>>

----------------------------------------------------------------------------
(* Float arithmetic                                                        *)

NaN == <<0, 0>>
Inf == <<1, 0>>
Zero == <<0, 1>>
One == <<1, 1>>

IsNaN(x) == x = NaN
IsInf(x) == x = Inf
IsFinite(x) == x[2] > 0

RECURSIVE GCD(_, _)
GCD(a, b) == IF b = 0 THEN a ELSE GCD(b, a % b)

Rat(n, d) == LET g == GCD(n, d) IN <<n \div g, d \div g>>

\* x * y on floats
Mul(x, y) ==
    IF IsNaN(x) \/ IsNaN(y) THEN NaN
    ELSE IF IsInf(x) \/ IsInf(y)
         THEN (IF x = Zero \/ y = Zero THEN NaN ELSE Inf)
    ELSE LET g == GCD(x[1], y[2])
             k == GCD(y[1], x[2])
         IN  Rat((x[1] \div g) * (y[1] \div k), (x[2] \div k) * (y[2] \div g))

\* x + y on floats
Add(x, y) ==
    IF IsNaN(x) \/ IsNaN(y) THEN NaN
    ELSE IF IsInf(x) \/ IsInf(y) THEN Inf
    ELSE LET g == GCD(x[2], y[2])
             l == (x[2] \div g) * y[2]
         IN  Rat(x[1] * (l \div x[2]) + y[1] * (l \div y[2]), l)

\* x / y on floats: numpy divides by zero without raising (0/0 is nan, x/0 is inf)
Div(x, y) ==
    IF IsNaN(x) \/ IsNaN(y) THEN NaN
    ELSE IF IsInf(x) THEN (IF IsInf(y) THEN NaN ELSE Inf)
    ELSE IF IsInf(y) THEN Zero
    ELSE IF y[1] = 0 THEN (IF x[1] = 0 THEN NaN ELSE Inf)
    ELSE LET g == GCD(x[1], y[1])
             k == GCD(x[2], y[2])
         IN  Rat((x[1] \div g) * (y[2] \div k), (x[2] \div k) * (y[1] \div g))

\* x > y on floats (every comparison with nan is false)
Gt(x, y) ==
    IF IsNaN(x) \/ IsNaN(y) THEN FALSE
    ELSE IF IsInf(x) THEN ~IsInf(y)
    ELSE IF IsInf(y) \/ x[1] = 0 THEN FALSE
    ELSE LET g == GCD(x[1], y[1])
             k == GCD(x[2], y[2])
         IN  (x[1] \div g) * (y[2] \div k) > (y[1] \div g) * (x[2] \div k)

\* the length of a 1-d array
len(v) == Cardinality(DOMAIN v)

\* An array holding the values of f (f itself, with every element computed once).
Array(f) == f @@ <<>>

RECURSIVE SumTo(_, _)
SumTo(v, n) == IF n = 0 THEN Zero ELSE Add(SumTo(v, n - 1), v[n - 1])

\* v.sum()
sum(v) == SumTo(v, len(v))

\* Mutant of normalize: the division by v.sum() is left out.
normalizeSkipped(v) == v

\* v / v.sum(), elementwise
normalize(v) == LET s == sum(v) IN Array([j \in DOMAIN v |-> Div(v[j], s)])

----------------------------------------------------------------------------
(* Indexing                                                                *)

\* B[s] for a Python int s on a 2-d array: a negative index counts from the
\* last row, and an index outside -len(B) .. len(B)-1 raises IndexError.
InBounds(B, s) == -len(B) <= s /\ s < len(B)

GetRow(B, s) == IF s >= 0 THEN B[s] ELSE B[s + len(B)]

\* len(obs[0]): the number of timesteps T
num_frames(o) == len(o[0])

\* Whether one of the three row lookups of timestep t raises IndexError.
RaisesIndexError(h, o, t) ==
    \/ ~InBounds(h.B1, o[0][t])
    \/ ~InBounds(h.B2, o[1][t])
    \/ ~InBounds(h.B3, o[2][t])

\* hmm.B1[obs[0,t]] * hmm.B2[obs[1,t]] * hmm.B3[obs[2,t]]
likelihood(h, o, t) ==
    LET r1 == GetRow(h.B1, o[0][t])
        r2 == GetRow(h.B2, o[1][t])
        r3 == GetRow(h.B3, o[2][t])
    IN  Array([j \in DOMAIN h.pi |-> Mul(Mul(r1[j], r2[j]), r3[j])])

\* The outcome of a call: a returned value, or IndexError raised at timestep t.
Return(v) == [outcome |-> "return", t |-> -1, value |-> v]
Raise(t) == [outcome |-> "IndexError", t |-> t, value |-> <<>>]

Min(S) == CHOOSE x \in S : \A y \in S : x <= y
Max(S) == CHOOSE x \in S : \A y \in S : x >= y

----------------------------------------------------------------------------
(* Forward (filtering)                                                     *)

\* v = likelihood * np.dot(hmm.A.T, f[t])
forwardV(h, o, t, ft) ==
    LET lik == likelihood(h, o, t)
        pred == [j \in DOMAIN h.pi |->
                   sum([i \in DOMAIN h.pi |-> Mul(h.A[i][j], ft[i])])]
    IN  Array([j \in DOMAIN h.pi |-> Mul(lik[j], pred[j])])

\* f[t+1] = v / v.sum()
forwardStep(h, o, t, ft) == normalize(forwardV(h, o, t, ft))

\* rows f[0 .. t]
RECURSIVE forwardRows(_, _, _)
forwardRows(h, o, t) ==
    IF t = 0 THEN [k \in {0} |-> h.pi]
    ELSE LET prev == forwardRows(h, o, t - 1)
             new == forwardStep(h, o, t - 1, prev[t - 1])
         IN  Array([k \in 0..t |-> IF k < t THEN prev[k] ELSE new])

forwardHMM(h, o) ==
    LET bad == {t \in 0..(num_frames(o) - 1) : RaisesIndexError(h, o, t)}
    IN  IF bad # {} THEN Raise(Min(bad))
        ELSE Return(forwardRows(h, o, num_frames(o)))

----------------------------------------------------------------------------
(* Backward                                                                *)

BackwardInit == 10000000

\* b[t-1] = np.dot(hmm.A, likelihood.T * b[t]), not normalized
backwardStep(h, o, t, bt) ==
    LET lik == likelihood(h, o, t - 1)
    IN  Array([i \in DOMAIN h.pi |->
                 sum([j \in DOMAIN h.pi |-> Mul(h.A[i][j], Mul(lik[j], bt[j]))])])

\* Mutant of backwardLast: the row is left as np.zeros allocated it.
backwardLastZeros(h) == [j \in DOMAIN h.pi |-> Zero]

\* b[len(obs[0])] = np.ones(len(hmm.pi)) * 10000000
backwardLast(h) == [j \in DOMAIN h.pi |-> <<BackwardInit, 1>>]

\* rows b[t .. T]
RECURSIVE backwardRows(_, _, _)
backwardRows(h, o, t) ==
    IF t = num_frames(o)
    THEN [k \in {t} |-> backwardLast(h)]
    ELSE LET next == backwardRows(h, o, t + 1)
             new == backwardStep(h, o, t + 1, next[t + 1])
         IN  Array([k \in t..num_frames(o) |-> IF k > t THEN next[k] ELSE new])

backwardHMM(h, o) ==
    LET bad == {t \in 0..(num_frames(o) - 1) : RaisesIndexError(h, o, t)}
    IN  IF bad # {} THEN Raise(Max(bad))
        ELSE Return(backwardRows(h, o, 0))

----------------------------------------------------------------------------
(* Forward-backward (smoothing)                                            *)

\* post = f * b;  post = post / post.sum(1)[:, np.newaxis]
forward_backwardHMM(h, o) ==
    LET f == forwardHMM(h, o)
        b == backwardHMM(h, o)
    IN  IF f.outcome # "return" THEN f
        ELSE IF b.outcome # "return" THEN b
        ELSE Return(Array([t \in 0..num_frames(o) |->
                             normalize([j \in DOMAIN h.pi |->
                                          Mul(f.value[t][j], b.value[t][j])])]))

----------------------------------------------------------------------------
(* Viterbi                                                                 *)

\* The first index of v in 0 .. n-1 holding the maximum, as numpy's argmax scans:
\* the running best is replaced only by a strictly greater entry, and a nan,
\* once met, is kept (nan propagates as the maximum).
RECURSIVE ArgMaxTo(_, _)

\* Mutant of ArgMaxTo: the running best is also replaced by an equal entry, so
\* that the last maximizer wins.
RECURSIVE ArgMaxLastTo(_, _)
ArgMaxLastTo(v, n) ==
    IF n = 1 THEN 0
    ELSE LET best == ArgMaxLastTo(v, n - 1)
         IN  IF IsNaN(v[best]) THEN best
             ELSE IF IsNaN(v[n - 1]) \/ ~Gt(v[best], v[n - 1]) THEN n - 1
             ELSE best

ArgMaxTo(v, n) ==
    IF n = 1 THEN 0
    ELSE LET best == ArgMaxTo(v, n - 1)
         IN  IF IsNaN(v[best]) THEN best
             ELSE IF IsNaN(v[n - 1]) \/ Gt(v[n - 1], v[best]) THEN n - 1
             ELSE best

\* v.argmax()
argmax(v) == ArgMaxTo(v, len(v))

\* v.max()
max(v) == v[argmax(v)]

\* Mutant of viterbiTmp: the likelihood is taken of the source state i, not of
\* the target state j (the emission vector broadcast along the wrong axis).
viterbiTmpSourceEmission(h, o, t, vprev) ==
    LET lik == likelihood(h, o, t)
    IN  Array([i \in DOMAIN h.pi |->
                 Array([j \in DOMAIN h.pi |-> Mul(Mul(vprev[i], h.A[i][j]), lik[i])])])

\* tmp = v_prev[:, np.newaxis] * hmm.A * likelihood:  tmp[i][j]
viterbiTmp(h, o, t, vprev) ==
    LET lik == likelihood(h, o, t)
    IN  Array([i \in DOMAIN h.pi |->
                 Array([j \in DOMAIN h.pi |-> Mul(Mul(vprev[i], h.A[i][j]), lik[j])])])

\* column j of tmp, over the source states i
column(tmp, j) == Array([i \in DOMAIN tmp |-> tmp[i][j]])

\* bp[:] = tmp.argmax(0)
viterbiBp(h, tmp) == Array([j \in DOMAIN h.pi |-> argmax(column(tmp, j))])

\* v[:] = tmp.max(0);  v /= v.sum()
viterbiV(h, tmp) == normalize([j \in DOMAIN h.pi |-> max(column(tmp, j))])

\* the trellis after the first t timesteps: vs[0 .. t] and bps[1 .. t]
RECURSIVE viterbiTrellis(_, _, _)
viterbiTrellis(h, o, t) ==
    IF t = 0 THEN [vs |-> [k \in {0} |-> h.pi], bps |-> <<>>]
    ELSE LET prev == viterbiTrellis(h, o, t - 1)
             tmp == viterbiTmp(h, o, t - 1, prev.vs[t - 1])
             bp == viterbiBp(h, tmp)
             v == viterbiV(h, tmp)
         IN  [vs |-> Array([k \in 0..t |-> IF k < t THEN prev.vs[k] ELSE v]),
              bps |-> Array([k \in 1..t |-> IF k < t THEN prev.bps[k] ELSE bp])]

\* Mutant of backtrack: every path[i] is the argmax of its own score row, the
\* backpointers are not followed.
backtrackGreedy(tr, T, i) == Array([k \in i..T |-> argmax(tr.vs[k])])

\* path[-1] = vs[-1].argmax();  path[i] = bps[i+1, path[i+1]]:  path[i .. T]
RECURSIVE backtrack(_, _, _)
backtrack(tr, T, i) ==
    IF i = T THEN [k \in {T} |-> argmax(tr.vs[T])]
    ELSE LET rest == backtrack(tr, T, i + 1)
             p == tr.bps[i + 1][rest[i + 1]]
         IN  Array([k \in i..T |-> IF k > i THEN rest[k] ELSE p])

\* Returns (path, vs); bps, the function's local, is kept beside them.
viterbiHMM(h, o) ==
    LET T == num_frames(o)
        bad == {t \in 0..(T - 1) : RaisesIndexError(h, o, t)}
        tr == viterbiTrellis(h, o, T)
    IN  IF bad # {} THEN Raise(Min(bad))
        ELSE Return([path |-> backtrack(tr, T, 0), vs |-> tr.vs, bps |-> tr.bps])

----------------------------------------------------------------------------
(* Samplers                                                                *)

\* dist.cumsum()
cumsum(dist) == Array([i \in DOMAIN dist |-> SumTo(dist, i + 1)])

\* c.searchsorted(u), side 'left': the number of entries of the sorted c that are
\* less than u, which is the first index i with c[i] >= u, or len(c).
searchsorted(c, u) == Cardinality({i \in DOMAIN c : Gt(u, c[i])})

\* dist.cumsum().searchsorted(np.random.sample()), u the uniform draw in [0, 1)
sample(dist, u) == searchsorted(cumsum(dist), u)

\* hmm.B[:, j]
Column(B, j) == [s \in DOMAIN B |-> B[s][j]]

\* A real of the Gaussian family: <<n, d>>, d > 0, n of either sign.
Abs(n) == IF n < 0 THEN -n ELSE n

Real(n, d) == LET g == GCD(Abs(n), d) IN <<n \div g, d \div g>>

\* np.random.normal(dist[0], dist[1]): mean + std * z, z the standard normal draw
sampleG(dist, z) ==
    LET sz == Real(dist[1][1] * z[1], dist[1][2] * z[2])
    IN  Real(dist[0][1] * sz[2] + sz[1] * dist[0][2], dist[0][2] * sz[2])

\* A float stored into an array of dtype int: truncated toward zero.
StoreAsInt(x) == IF x[1] >= 0 THEN x[1] \div x[2] ELSE -((-x[1]) \div x[2])

----------------------------------------------------------------------------
(* Inputs                                                                  *)

\* The probabilities the tables are built from.
ProbGrid == {<<0, 1>>, <<1, 2>>, <<1, 1>>}

\* The numbers of hidden states N of the models checked.
StateCounts == {1, 2}

\* num_symbols_k of the three categorical channels.
num_symbols == <<2, 1, 1>>

\* The longest observation sequence checked.
MaxT == 3

\* The probability distributions over 0 .. n-1.
Dists(n) == {p \in [0..(n - 1) -> ProbGrid] : sum(p) = One}

\* The S x n column-stochastic matrices: B[s][j], each column j a distribution.
ColStochastic(S, n) ==
    {[s \in 0..(S - 1) |-> [j \in 0..(n - 1) |-> c[j][s]]] :
        c \in [0..(n - 1) -> Dists(S)]}

\* HMM(pi, A, B1, B2, B3)
HMM(pi, A, B1, B2, B3) ==
    [pi |-> pi, A |-> A, B1 |-> B1, B2 |-> B2, B3 |-> B3, num_states |-> len(pi)]

\* The valid categorical models.
Models ==
    UNION {{HMM(pi, A, B1, B2, B3) :
              pi \in Dists(n), A \in [0..(n - 1) -> Dists(n)],
              B1 \in ColStochastic(num_symbols[1], n),
              B2 \in ColStochastic(num_symbols[2], n),
              B3 \in ColStochastic(num_symbols[3], n)} : n \in StateCounts}

\* The 3 x T observation arrays whose channel-k symbols are drawn from Sym[k].
ObsArrays(Sym, T) ==
    {[k \in 0..2 |-> IF k = 0 THEN o0 ELSE IF k = 1 THEN o1 ELSE o2] :
        o0 \in [0..(T - 1) -> Sym[1]],
        o1 \in [0..(T - 1) -> Sym[2]],
        o2 \in [0..(T - 1) -> Sym[3]]}

\* Symbols in range: 0 .. num_symbols_k - 1.
InRange == [k \in 1..3 |-> 0..(num_symbols[k] - 1)]

NoObs == [k \in 0..2 |-> <<>>]
NoRet == [fn |-> "none", outcome |-> "none", t |-> -1, value |-> <<>>]

----------------------------------------------------------------------------
(* Inference calls on in-range observations                                *)

\* The arguments of one inference call: a model of M and an observation array of
\* a length in Ts whose channel-k symbols are drawn from Sym[k].
InitCall(M, Ts, Sym) ==
    /\ hmm \in M
    /\ \E T \in Ts : obs \in ObsArrays(Sym, T)
    /\ len_sequence = 0
    /\ pc = "ready"
    /\ ret = NoRet

Init == InitCall(Models, 0..MaxT, InRange)

Call(fn, result) ==
    /\ pc = "ready"
    /\ pc' = "done"
    /\ ret' = [fn |-> fn, outcome |-> result.outcome, t |-> result.t,
               value |-> result.value]
    /\ UNCHANGED <<hmm, obs, len_sequence>>

CallForward == Call("forwardHMM", forwardHMM(hmm, obs))

CallBackward == Call("backwardHMM", backwardHMM(hmm, obs))

CallForwardBackward == Call("forward_backwardHMM", forward_backwardHMM(hmm, obs))

CallViterbi == Call("viterbiHMM", viterbiHMM(hmm, obs))

Next ==
    \/ CallForward
    \/ CallBackward
    \/ CallForwardBackward
    \/ CallViterbi

Spec == Init /\ [][Next]_vars

----------------------------------------------------------------------------
(* Viterbi calls alone                                                     *)

NextViterbi == CallViterbi

SpecViterbi == Init /\ [][NextViterbi]_vars

Returned(fn) == pc = "done" /\ ret.fn = fn /\ ret.outcome = "return"

\* x > 0
Positive(x) == Gt(x, Zero)

\* The state sequences s[0 .. T].
StatePaths == [0..num_frames(obs) -> DOMAIN hmm.pi]

\* likelihood(obs[t]) for every timestep t
Likelihoods == Array([t \in 0..(num_frames(obs) - 1) |-> likelihood(hmm, obs, t)])

\* pi[s0] * prod_{t<n} A[s_t][s_{t+1}] * L[t][s_{t+1}]
RECURSIVE JointTo(_, _, _)
JointTo(L, s, n) ==
    IF n = 0 THEN hmm.pi[s[0]]
    ELSE Mul(JointTo(L, s, n - 1), Mul(hmm.A[s[n - 1]][s[n]], L[n - 1][s[n]]))

\* The joint probability of state sequence s and the observations.
Joint(s) == JointTo(Likelihoods, s, num_frames(obs))

\* The joint probability of every state sequence.
Joints == LET L == Likelihoods
          IN  Array([s \in StatePaths |-> JointTo(L, s, num_frames(obs))])

SomePositivePath == \E s \in StatePaths : Positive(Joint(s))

\* The Viterbi recursion of the source with the line `v /= v.sum()` left out:
\* score rows, then the same backtracking.
RECURSIVE RawTrellis(_)
RawTrellis(t) ==
    IF t = 0 THEN [vs |-> [k \in {0} |-> hmm.pi], bps |-> <<>>]
    ELSE LET prev == RawTrellis(t - 1)
             tmp == viterbiTmp(hmm, obs, t - 1, prev.vs[t - 1])
             bp == viterbiBp(hmm, tmp)
             v == Array([j \in DOMAIN hmm.pi |-> max(column(tmp, j))])
         IN  [vs |-> Array([k \in 0..t |-> IF k < t THEN prev.vs[k] ELSE v]),
              bps |-> Array([k \in 1..t |-> IF k < t THEN prev.bps[k] ELSE bp])]

RawPath == backtrack(RawTrellis(num_frames(obs)), num_frames(obs), 0)

\* C4: when some state path has positive joint probability, the path viterbiHMM
\* returns has the greatest joint probability pi[s0] * prod A * likelihood of all
\* N^(T+1) state sequences, and it is the path the same recursion returns
\* without the per-step renormalization.
C4_ViterbiPathIsMostProbable ==
    Returned("viterbiHMM") =>
        LET J == Joints
        IN  (\E s \in StatePaths : Positive(J[s])) =>
                /\ \A s \in StatePaths : ~Gt(J[s], J[ret.value.path])
                /\ ret.value.path = RawPath

\* A call that had to choose: two timesteps, two states, and a path that changes
\* state, returned with positive probability while another positive path exists.
C4_Witness ==
    /\ Returned("viterbiHMM")
    /\ num_frames(obs) >= 2
    /\ hmm.num_states = 2
    /\ ret.value.path[0] # ret.value.path[1]
    /\ Positive(Joint(ret.value.path))
    /\ \E s \in StatePaths :
          /\ s # ret.value.path
          /\ Positive(Joint(s))
          /\ Gt(Joint(ret.value.path), Joint(s))
    /\ \E t \in 1..2 : ret.value.vs[t] # RawTrellis(t).vs

\* score[t][path[t]] * A[path[t]][path[t+1]] * likelihood(obs[t])[path[t+1]]
EdgeScore(v, t) ==
    Mul(Mul(v.vs[t][v.path[t]], hmm.A[v.path[t]][v.path[t + 1]]),
        likelihood(hmm, obs, t)[v.path[t + 1]])

\* C5: when some state path has positive joint probability, pi[path[0]] > 0 and
\* every transition path[t] -> path[t+1] of the returned path has a strictly
\* positive score[t][path[t]] * A[path[t]][path[t+1]] * likelihood(obs[t])[path[t+1]].
C5_NoZeroEdgeOnPath ==
    Returned("viterbiHMM") =>
        (SomePositivePath =>
            /\ Positive(hmm.pi[ret.value.path[0]])
            /\ \A t \in 0..(num_frames(obs) - 1) : Positive(EdgeScore(ret.value, t)))

\* A returned two-step path in a model where the state with the best final score
\* is reached over a transition that another source state cannot take, and where
\* a zero entry of pi excludes one start.
C5_Witness ==
    /\ Returned("viterbiHMM")
    /\ SomePositivePath
    /\ num_frames(obs) >= 2
    /\ hmm.num_states = 2
    /\ \E i \in DOMAIN hmm.pi : hmm.pi[i] = Zero
    /\ \E i \in DOMAIN hmm.pi : hmm.A[i][ret.value.path[2]] = Zero
    /\ \E s \in StatePaths : ~Positive(Joint(s))

\* The lowest index among the maximizers of v.
LowestMaximizer(v) ==
    CHOOSE i \in DOMAIN v :
        /\ \A k \in DOMAIN v : ~Gt(v[k], v[i])
        /\ \A k \in DOMAIN v : k < i => Gt(v[i], v[k])

AllFinite(v) == \A i \in DOMAIN v : IsFinite(v[i])

\* score[t][i] * A[i][j] * likelihood(obs[t])[j] over i, from the returned trellis
Candidates(v, t, j) ==
    [i \in DOMAIN hmm.pi |->
       Mul(Mul(v.vs[t][i], hmm.A[i][j]), likelihood(hmm, obs, t)[j])]

\* C9: every argmax of viterbiHMM over numbers is resolved to the lowest index
\* among the maximizers: backpointer[t+1][j] is the smallest i maximizing
\* score[t][i] * A[i][j] * likelihood(obs[t])[j], and path[T] is the smallest j
\* with score[T][j] = max(score[T]).
C9_ArgmaxLowestIndex ==
    Returned("viterbiHMM") =>
        LET v == ret.value
            T == num_frames(obs)
        IN  /\ \A t \in 0..(T - 1) : \A j \in DOMAIN hmm.pi :
                  AllFinite(v.vs[t]) =>
                      v.bps[t + 1][j] = LowestMaximizer(Candidates(v, t, j))
            /\ AllFinite(v.vs[T]) => v.path[T] = LowestMaximizer(v.vs[T])

\* A call with a tie in both kinds of argmax: two source states give the same
\* positive candidate for some target, and the final scores are equal.
C9_Witness ==
    /\ Returned("viterbiHMM")
    /\ hmm.num_states = 2
    /\ num_frames(obs) = 2
    /\ Positive(ret.value.vs[2][0])
    /\ ret.value.vs[2][0] = ret.value.vs[2][1]
    /\ \E t \in 0..1 : \E j \in DOMAIN hmm.pi :
          /\ Candidates(ret.value, t, j)[0] = Candidates(ret.value, t, j)[1]
          /\ Positive(Candidates(ret.value, t, j)[0])

----------------------------------------------------------------------------
(* Claims about every inference call on in-range observations              *)

\* C1: for every valid model and in-range observation sequence of length T,
\* forwardHMM returns T+1 rows and every row sums to 1.
C1_ForwardRowsSumToOne ==
    (pc = "done" /\ (ret.fn = "forwardHMM")) =>
        /\ ret.outcome = "return"
        /\ DOMAIN ret.value = 0..num_frames(obs)
        /\ \A t \in DOMAIN ret.value : sum(ret.value[t]) = One

HasNaN(rows) == \E t \in DOMAIN rows : \E j \in DOMAIN rows[t] : IsNaN(rows[t][j])

\* The matrix a call returned: the rows of forwardHMM, backwardHMM and
\* forward_backwardHMM, the score rows vs of viterbiHMM.
ReturnedRows == IF ret.fn = "viterbiHMM" THEN ret.value.vs ELSE ret.value

\* v.sum() of timestep t, recomputed from the returned rows: the vector v of
\* forwardHMM, the column maxima of tmp in viterbiHMM.
StepSum(t) ==
    IF ret.fn = "forwardHMM"
    THEN sum(forwardV(hmm, obs, t, ret.value[t]))
    ELSE LET tmp == viterbiTmp(hmm, obs, t, ret.value.vs[t])
         IN  sum([j \in DOMAIN hmm.pi |-> max(column(tmp, j))])

\* C2: when the intermediate vector of a step sums to zero, the call ends in a
\* distinct failure; it never returns a matrix holding the nan of a division by
\* zero.
C2_ZeroLikelihoodIsAFailure ==
    (pc = "done" /\ (ret.fn \in {"forwardHMM", "viterbiHMM"})) =>
        (ret.outcome = "return" =>
            /\ \A t \in 0..(num_frames(obs) - 1) : StepSum(t) # Zero
            /\ ~HasNaN(ReturnedRows))

----------------------------------------------------------------------------
(* Calls on the empty observation sequence                                 *)

InitEmpty == InitCall(Models, {0}, InRange)

SpecEmpty == InitEmpty /\ [][Next]_vars

\* C7: for T = 0 every inference function returns its single-row result without
\* error: forwardHMM exactly [pi], backwardHMM one row whose entries are all the
\* same positive constant, forward_backwardHMM one row equal to pi, and
\* viterbiHMM the path [argmax(pi)].
C7_EmptySequence ==
    (pc = "done" /\ num_frames(obs) = 0) =>
        /\ ret.outcome = "return"
        /\ (ret.fn = "forwardHMM") => ret.value = [t \in {0} |-> hmm.pi]
        /\ (ret.fn = "backwardHMM") =>
              /\ DOMAIN ret.value = {0}
              /\ DOMAIN ret.value[0] = DOMAIN hmm.pi
              /\ \E c \in {ret.value[0][0]} :
                    /\ Positive(c) /\ IsFinite(c)
                    /\ \A j \in DOMAIN hmm.pi : ret.value[0][j] = c
        /\ (ret.fn = "forward_backwardHMM") => ret.value = [t \in {0} |-> hmm.pi]
        /\ (ret.fn = "viterbiHMM") =>
              /\ ret.value.path = [t \in {0} |-> LowestMaximizer(hmm.pi)]
              /\ ret.value.vs = [t \in {0} |-> hmm.pi]

\* The smoother returned for an empty sequence on a two-state model whose pi has
\* a zero entry (so that the row is not the uniform one).
C7_Witness ==
    /\ pc = "done"
    /\ ret.fn = "forward_backwardHMM"
    /\ num_frames(obs) = 0
    /\ hmm.num_states = 2
    /\ hmm.pi[0] = Zero

----------------------------------------------------------------------------
(* Calls on single-state models                                            *)

InitSingle == InitCall({h \in Models : h.num_states = 1}, 0..MaxT, InRange)

SpecSingle == InitSingle /\ [][Next]_vars

\* Every observation has positive likelihood in the only state.
PositiveLikelihood ==
    \A t \in 0..(num_frames(obs) - 1) : Positive(likelihood(hmm, obs, t)[0])

UnitRows == [t \in 0..num_frames(obs) |-> [j \in {0} |-> One]]

\* C8 as stated: with a single state and observations of positive likelihood,
\* Forward, Backward and Smoother each return the row [1.0] at every one of the
\* T+1 timesteps, and Viterbi returns the all-zero path of length T+1.
C8_SingleStateAllUnit ==
    (pc = "done" /\ hmm.num_states = 1 /\ PositiveLikelihood) =>
        /\ ret.outcome = "return"
        /\ (ret.fn \in {"forwardHMM", "backwardHMM", "forward_backwardHMM"}) =>
              ret.value = UnitRows
        /\ (ret.fn = "viterbiHMM") =>
              ret.value.path = [t \in 0..num_frames(obs) |-> 0]

\* The product of the likelihoods of observations t .. T-1 times b[T]
RECURSIVE SingleBackward(_)
SingleBackward(t) ==
    IF t = num_frames(obs) THEN <<BackwardInit, 1>>
    ELSE Mul(likelihood(hmm, obs, t)[0], SingleBackward(t + 1))

\* C8 amended: with a single state and observations of positive likelihood,
\* forwardHMM and forward_backwardHMM return the row [1.0] at every one of the
\* T+1 timesteps and viterbiHMM returns the all-zero path of length T+1;
\* backwardHMM returns T+1 rows of one positive entry that it does not
\* normalize: b[T] = [10000000], not [1.0], and b[t] = likelihood(obs[t]) * b[t+1].
C8_SingleState ==
    (pc = "done" /\ hmm.num_states = 1 /\ PositiveLikelihood) =>
        /\ ret.outcome = "return"
        /\ (ret.fn \in {"forwardHMM", "forward_backwardHMM"}) => ret.value = UnitRows
        /\ (ret.fn = "backwardHMM") =>
              /\ ret.value =
                    [t \in 0..num_frames(obs) |-> [j \in {0} |-> SingleBackward(t)]]
              /\ \A t \in 0..num_frames(obs) : Positive(ret.value[t][0])
              /\ ret.value[num_frames(obs)] = [j \in {0} |-> <<BackwardInit, 1>>]
        /\ (ret.fn = "viterbiHMM") =>
              ret.value.path = [t \in 0..num_frames(obs) |-> 0]

\* The smoother returned on a single-state model for three observations, one of
\* them of likelihood 1/2 (so that normalization has something to do).
C8_Witness ==
    /\ pc = "done"
    /\ ret.fn = "forward_backwardHMM"
    /\ hmm.num_states = 1
    /\ PositiveLikelihood
    /\ num_frames(obs) = 3
    /\ \E t \in 0..2 : likelihood(hmm, obs, t)[0] # One

----------------------------------------------------------------------------
(* Calls on observations whose indices may be out of range                 *)

\* The longest observation sequence with out-of-range indices checked.
MaxTIdx == 1

\* Every index from one below -num_symbols_k to num_symbols_k.
AnyIndex == [k \in 1..3 |-> (-(num_symbols[k] + 1))..num_symbols[k]]

InitIdx == InitCall(Models, 0..MaxTIdx, AnyIndex)

SpecIdx == InitIdx /\ [][Next]_vars

\* The timesteps holding an index outside [0, num_symbols_k) on some channel k.
OutOfRangeSteps ==
    {t \in 0..(num_frames(obs) - 1) :
        \E k \in 0..2 : obs[k][t] \notin 0..(num_symbols[k + 1] - 1)}

\* C3: an observation index outside [0, num_symbols_k), whether num_symbols_k,
\* larger, or negative, makes forwardHMM, backwardHMM and viterbiHMM fail with
\* a lookup error at that timestep; it is never clamped, wrapped to another row
\* of Bk or treated as likelihood zero.
C3_OutOfRangeIndexFails ==
    (pc = "done" /\ OutOfRangeSteps # {}) =>
        /\ ret.outcome = "IndexError"
        /\ ret.t \in OutOfRangeSteps

----------------------------------------------------------------------------
(* generate_sequence, one step per loop iteration                          *)

\* The longest sequence generated.
MaxLen == 2

\* The values np.random.sample() draws from [0, 1).
Uniform == {<<0, 1>>, <<1, 4>>, <<1, 2>>, <<3, 4>>}

InitGen ==
    /\ hmm \in Models
    /\ obs = NoObs
    /\ len_sequence \in 0..MaxLen
    /\ pc = "ready"
    /\ ret = NoRet

\* a with x appended at index i
Store(a, i, x) == Array([k \in 0..i |-> IF k < i THEN a[k] ELSE x])

\* hidden_state_sequence[0] = sample(hmm.pi)
GenStart ==
    /\ pc = "ready"
    /\ \E u \in Uniform :
          ret' = [fn |-> "generate_sequence", outcome |-> "running", t |-> 0,
                  value |-> [hidden_state_sequence |-> Store(<<>>, 0, sample(hmm.pi, u)),
                             observations |-> NoObs]]
    /\ pc' = "loop"
    /\ UNCHANGED <<hmm, obs, len_sequence>>

\* One iteration i of `for i in range(len_sequence)`.
GenStep ==
    /\ pc = "loop"
    /\ ret.t < len_sequence
    /\ \E ua \in Uniform, u1 \in Uniform, u2 \in Uniform, u3 \in Uniform :
          LET i == ret.t
              hs == ret.value.hidden_state_sequence
              ob == ret.value.observations
              next == sample(hmm.A[hs[i]], ua)
              o0 == sample(Column(hmm.B1, next), u1)
              o1 == sample(Column(hmm.B2, next), u2)
              o2 == sample(Column(hmm.B3, next), u3)
          IN  ret' = [ret EXCEPT
                        !.t = i + 1,
                        !.value = [hidden_state_sequence |-> Store(hs, i + 1, next),
                                   observations |->
                                       [k \in 0..2 |->
                                          Store(ob[k], i,
                                                IF k = 0 THEN o0
                                                ELSE IF k = 1 THEN o1 ELSE o2)]]]
    /\ UNCHANGED <<hmm, obs, len_sequence, pc>>

\* return hidden_state_sequence, observations
GenReturn ==
    /\ pc = "loop"
    /\ ret.fn = "generate_sequence"
    /\ ret.t = len_sequence
    /\ pc' = "done"
    /\ ret' = [ret EXCEPT !.outcome = "return"]
    /\ UNCHANGED <<hmm, obs, len_sequence>>

NextGen == GenStart \/ GenStep \/ GenReturn

SpecGen == InitGen /\ [][NextGen]_vars

\* C6: for every sequence of uniform draws in [0, 1), 0 included,
\* generate_sequence returns only positive-probability choices: pi[h[0]] > 0,
\* A[h[i]][h[i+1]] > 0 and Bk[obs[k][i]][h[i+1]] > 0 for all i and k, every
\* returned index is in range, and forward_backwardHMM on the generated
\* observations gives posterior[t][h[t]] > 0 at every t.
C6_GeneratedPathIsPossible ==
    (pc = "done" /\ ret.fn = "generate_sequence") =>
        LET h == ret.value.hidden_state_sequence
            o == ret.value.observations
            B == <<hmm.B1, hmm.B2, hmm.B3>>
            post == forward_backwardHMM(hmm, o)
        IN  /\ DOMAIN h = 0..len_sequence
            /\ \A i \in DOMAIN h : h[i] \in DOMAIN hmm.pi
            /\ \A k \in 0..2 : /\ DOMAIN o[k] = 0..(len_sequence - 1)
                               /\ \A i \in DOMAIN o[k] : o[k][i] \in DOMAIN B[k + 1]
            /\ Positive(hmm.pi[h[0]])
            /\ \A i \in 0..(len_sequence - 1) :
                  /\ Positive(hmm.A[h[i]][h[i + 1]])
                  /\ \A k \in 0..2 : Positive(B[k + 1][o[k][i]][h[i + 1]])
            /\ post.outcome = "return"
            /\ \A t \in 0..len_sequence : Positive(post.value[t][h[t]])

----------------------------------------------------------------------------
(* generate_sequenceG, one step per loop iteration                         *)

\* The longest Gaussian sequence generated.
MaxLenG == 1

\* The standard deviations of the Gaussian tables.
GaussStds == {<<1, 1>>, <<2, 1>>}

\* The 2 x n tables: row 0 the means (state j has mean j), row 1 the standard
\* deviations (the same for every state).
GaussTables(n) ==
    {[r \in 0..1 |-> [j \in 0..(n - 1) |-> IF r = 0 THEN <<j, 1>> ELSE sd]] :
        sd \in GaussStds}

\* The valid Gaussian models.
ModelsG ==
    UNION {{HMM(pi, A, B1, B2, B3) :
              pi \in Dists(n), A \in [0..(n - 1) -> Dists(n)],
              B1 \in GaussTables(n), B2 \in GaussTables(n),
              B3 \in GaussTables(n)} : n \in StateCounts}

\* The standard normal variates the Gaussian draws are made of.
Normal == {<<-3, 2>>, <<0, 1>>, <<1, 2>>}

InitGenG ==
    /\ hmm \in ModelsG
    /\ obs = NoObs
    /\ len_sequence \in 0..MaxLenG
    /\ pc = "ready"
    /\ ret = NoRet

\* hidden_state_sequence[0] = sample(hmm.pi); `normal` keeps the variates drawn.
GenGStart ==
    /\ pc = "ready"
    /\ \E u \in Uniform :
          ret' = [fn |-> "generate_sequenceG", outcome |-> "running", t |-> 0,
                  value |-> [hidden_state_sequence |-> Store(<<>>, 0, sample(hmm.pi, u)),
                             observations |-> NoObs,
                             normal |-> NoObs]]
    /\ pc' = "loop"
    /\ UNCHANGED <<hmm, obs, len_sequence>>

\* One iteration i of `for i in range(len_sequence)`: observations is an array
\* of dtype int, so each Gaussian draw is truncated when it is stored.
GenGStep ==
    /\ pc = "loop"
    /\ ret.t < len_sequence
    /\ \E ua \in Uniform, z \in [0..2 -> Normal] :
          LET i == ret.t
              hs == ret.value.hidden_state_sequence
              ob == ret.value.observations
              next == sample(hmm.A[hs[i]], ua)
              B == <<hmm.B1, hmm.B2, hmm.B3>>
          IN  ret' = [ret EXCEPT
                        !.t = i + 1,
                        !.value = [hidden_state_sequence |-> Store(hs, i + 1, next),
                                   observations |->
                                       [k \in 0..2 |->
                                          Store(ob[k], i,
                                                StoreAsInt(sampleG(Column(B[k + 1], next),
                                                                   z[k])))],
                                   normal |->
                                       [k \in 0..2 |->
                                          Store(ret.value.normal[k], i, z[k])]]]
    /\ UNCHANGED <<hmm, obs, len_sequence, pc>>

\* return hidden_state_sequence, observations
GenGReturn ==
    /\ pc = "loop"
    /\ ret.fn = "generate_sequenceG"
    /\ ret.t = len_sequence
    /\ pc' = "done"
    /\ ret' = [ret EXCEPT !.outcome = "return"]
    /\ UNCHANGED <<hmm, obs, len_sequence>>

NextGenG == GenGStart \/ GenGStep \/ GenGReturn

SpecGenG == InitGenG /\ [][NextGenG]_vars

\* C10: generate_sequenceG returns length+1 hidden states and length observation
\* triples, and each observations[k][i] is exactly the real value the Gaussian
\* draw produced with (mean, std) = column hidden_path[i+1] of Bk: not rounded,
\* truncated or otherwise altered when stored.
C10_GaussianDrawStoredExactly ==
    (pc = "done" /\ ret.fn = "generate_sequenceG") =>
        LET h == ret.value.hidden_state_sequence
            o == ret.value.observations
            B == <<hmm.B1, hmm.B2, hmm.B3>>
        IN  /\ DOMAIN h = 0..len_sequence
            /\ \A k \in 0..2 :
                  /\ DOMAIN o[k] = 0..(len_sequence - 1)
                  /\ \A i \in DOMAIN o[k] :
                        <<o[k][i], 1>> =
                            sampleG(Column(B[k + 1], h[i + 1]), ret.value.normal[k][i])

====
